---- MODULE Spec2Model ----
(***************************************************************************)
(* Duality: the double-slit visualisation.  The model covers the           *)
(* parameter validator (contexts/SimulationContext.tsx), the pausable      *)
(* simulation clock (hooks/useAnimationLoop and its inline copy in         *)
(* components/DoubleSlitExperiment.tsx) and the two components that own    *)
(* the params state: SimulationProvider (validated setter) and             *)
(* DoubleSlitExperiment (the component App mounts, raw useState setter).   *)
(*                                                                         *)
(* Numbers.  A JavaScript number is a record [k, v]: k = "fin" with the    *)
(* value v, "nan", or "inf" with v the sign.  Parameter values are held in *)
(* thousandths of their unit (0.5 um = 500), timestamps in milliseconds,   *)
(* simulation time in microseconds (ms x thousandths), so that every       *)
(* product the code forms on the modelled inputs is an exact integer.      *)
(***************************************************************************)
EXTENDS Integers, Sequences, FiniteSets, TLC

VARIABLES
    host,            \* which component owns the state: "SimulationProvider" | "DoubleSlitExperiment"
    params,          \* useState<PhysicsParams>
    supplied,        \* the value the last setter call computed from its SetStateAction
    simTime,         \* timeRef.current.simTime
    lastTimestamp,   \* timeRef.current.lastTimestamp (0 = cleared)
    simulationTime,  \* useState(0): the exposed simulation time
    loop,            \* the isPaused/timeScale captured by the scheduled animate closure
    now,             \* wall clock (ms) of the last delivered frame
    lastOp,          \* the handler that ran last
    arg,             \* validator run: the params handed to validate
    res,             \* validator run: the latest result
    prevRes,         \* validator run: the result before the latest
    calls,           \* validator run: number of applications so far
    allParticles,    \* useState<Particle[]>: the generated population
    visibleParticles,\* useState<Particle[]>: the particles handed to the scene
    populationId,    \* which array allParticles holds: 0 the cleared one, 1 or 2 a generated batch
    visibilityDue,   \* a run of the visibility effect is pending
    pendingFrames,   \* the requestAnimationFrame callbacks not yet run: [id, config]
    animationFrameId,\* the request id held by the animation effect in force
    tornDown,        \* the component has been unmounted
    uTime,           \* WaveField: materialRef.current.uniforms.uTime.value
    probe            \* a run of one pure function: its inputs, progress and result

\* the variables of the mounted component
componentVars == <<host, params, supplied, simTime, lastTimestamp, simulationTime, loop, now,
                   lastOp, allParticles, visibleParticles, populationId, visibilityDue,
                   pendingFrames, animationFrameId, tornDown, uTime>>

vars == <<componentVars, arg, res, prevRes, calls, probe>>

(***************************************************************************)
(* JavaScript numbers                                                      *)
(***************************************************************************)
Fin(n) == [k |-> "fin", v |-> n]
NaN == [k |-> "nan", v |-> 0]
PosInf == [k |-> "inf", v |-> 1]
NegInf == [k |-> "inf", v |-> -1]

isNaN(x) == x.k = "nan"
isFinite(x) == x.k = "fin"

\* a > b on numbers: false whenever either side is NaN
Gt(a, b) ==
    CASE isNaN(a) \/ isNaN(b) -> FALSE
      [] isFinite(a) /\ isFinite(b) -> a.v > b.v
      [] isFinite(a) -> b = NegInf
      [] isFinite(b) -> a = PosInf
      [] OTHER -> a = PosInf /\ b = NegInf

\* a >= b on numbers
Ge(a, b) == ~isNaN(a) /\ ~isNaN(b) /\ (a = b \/ Gt(a, b))

\* x * 0.8 (exact on the modelled inputs, all multiples of 0.005)
Times08(x) == IF isFinite(x) THEN Fin((x.v * 8) \div 10) ELSE x

\* n * x for a finite integer n: 0 * Infinity is NaN
Scale(n, x) ==
    CASE isFinite(x) -> Fin(n * x.v)
      [] isNaN(x) -> NaN
      [] OTHER -> IF n = 0 THEN NaN ELSE IF n > 0 THEN x ELSE [x EXCEPT !.v = -x.v]

\* a + b: Infinity + -Infinity is NaN
Plus(a, b) ==
    CASE isNaN(a) \/ isNaN(b) -> NaN
      [] isFinite(a) /\ isFinite(b) -> Fin(a.v + b.v)
      [] isFinite(a) -> b
      [] isFinite(b) -> a
      [] OTHER -> IF a = b THEN a ELSE NaN

(***************************************************************************)
(* Parameter validator                                                     *)
(***************************************************************************)
NumericKeys == {"wavelength", "slitSeparation", "slitWidth", "screenDistance",
                "amplitude", "waveSpeed", "particleRate", "timeScale"}
BoolKeys == {"showWaves", "particleMode", "isPaused"}

PARAM_BOUNDS ==
    [wavelength     |-> [min |-> 100,   max |-> 2000],
     slitSeparation |-> [min |-> 500,   max |-> 10000],
     slitWidth      |-> [min |-> 100,   max |-> 5000],
     screenDistance |-> [min |-> 1000,  max |-> 20000],
     amplitude      |-> [min |-> 100,   max |-> 1000],
     waveSpeed      |-> [min |-> 100,   max |-> 10000],
     particleRate   |-> [min |-> 10000, max |-> 1000000],
     timeScale      |-> [min |-> 100,   max |-> 5000]]

MathMin(a, b) == IF a < b THEN a ELSE b
MathMax(a, b) == IF a > b THEN a ELSE b

Midpoint(key) == Fin((PARAM_BOUNDS[key].min + PARAM_BOUNDS[key].max) \div 2)

\* validateParam without the NaN / non-finite fallback
validateParam_NoFallback(key, value) ==
    IF isFinite(value)
    THEN Fin(MathMax(PARAM_BOUNDS[key].min, MathMin(PARAM_BOUNDS[key].max, value.v)))
    ELSE value

validateParam(key, value) ==
    IF isNaN(value) \/ ~isFinite(value)
    THEN Midpoint(key)
    ELSE Fin(MathMax(PARAM_BOUNDS[key].min, MathMin(PARAM_BOUNDS[key].max, value.v)))

\* the cross-field rule, applied to the values as supplied
RepairSlitWidth(p) ==
    IF Gt(p.slitWidth, p.slitSeparation)
    THEN [p EXCEPT !.slitWidth = Times08(p.slitSeparation)]
    ELSE p

\* the per-field pass over Object.keys(PARAM_BOUNDS)
ClampAll(p) ==
    [key \in DOMAIN p |-> IF key \in NumericKeys THEN validateParam(key, p[key]) ELSE p[key]]

validatePhysicsConstraints(p) == ClampAll(RepairSlitWidth(p))

validateSlitConstraints(slitWidth, slitSeparation) ==
    IF Ge(slitWidth, slitSeparation)
    THEN "Slit width must be less than slit separation"
    ELSE "null"

DefaultParams ==
    [wavelength     |-> Fin(500),
     slitSeparation |-> Fin(2000),
     slitWidth      |-> Fin(300),
     screenDistance |-> Fin(10000),
     amplitude      |-> Fin(500),
     showWaves      |-> TRUE,
     particleMode   |-> FALSE,
     isPaused       |-> FALSE,
     waveSpeed      |-> Fin(2000),
     particleRate   |-> Fin(100000),
     timeScale      |-> Fin(1000)]

(***************************************************************************)
(* Bounds of the model                                                     *)
(***************************************************************************)
MaxNow == 3        \* the wall clock stops at this many ms
MaxFrameGap == 2   \* the longest gap between two delivered frames, in ms
MaxCalls == 2      \* validator run: applications of validate in a row
MaxPopulation == 2 \* the largest population followed through the component
LongFrameGap == 5000 \* ms between two frames while the page was hidden

Hosts == {"SimulationProvider", "DoubleSlitExperiment"}

(***************************************************************************)
(* Interference model: getInterferenceIntensity                            *)
(*                                                                         *)
(* Math.cos and Math.sin are library calls whose results are irrational:   *)
(* they are modelled by what the language guarantees of them, cos(x) in    *)
(* [-1, 1] with cos(0) = 1, |sin(x)| <= |x| and NaN for an argument that   *)
(* is NaN or infinite, and a call returns any value of that range on a     *)
(* grid of step 1/TrigGrid.  A trigonometric result is held in units of    *)
(* 1/TrigGrid, its square in units of 1/TrigGrid^2 and an intensity, the   *)
(* product of two squares, in units of 1/One.  The arguments of the two    *)
(* calls are followed by sign class only (NaN, zero, finite of either      *)
(* sign, infinite of either sign), which is exact for the products and     *)
(* quotients of the function as long as none overflows or underflows.      *)
(***************************************************************************)
TrigGrid == 2      \* library results are sampled in steps of 1/TrigGrid

One == TrigGrid * TrigGrid * TrigGrid * TrigGrid

\* a <= b on numbers
Le(a, b) == Ge(b, a)

Sign(x) ==
    CASE isNaN(x) -> "nan"
      [] x = PosInf -> "pinf"
      [] x = NegInf -> "ninf"
      [] x.v > 0 -> "pos"
      [] x.v < 0 -> "neg"
      [] OTHER -> "zero"

Negative(s) == s \in {"neg", "ninf"}
Infinite(s) == s \in {"pinf", "ninf"}

\* a * b on sign classes: 0 * Infinity is NaN
SignTimes(a, b) ==
    CASE a = "nan" \/ b = "nan" -> "nan"
      [] (a = "zero" /\ Infinite(b)) \/ (Infinite(a) /\ b = "zero") -> "nan"
      [] a = "zero" \/ b = "zero" -> "zero"
      [] Infinite(a) \/ Infinite(b) -> IF Negative(a) = Negative(b) THEN "pinf" ELSE "ninf"
      [] OTHER -> IF Negative(a) = Negative(b) THEN "pos" ELSE "neg"

\* a / b on sign classes: 0 / 0 and Infinity / Infinity are NaN
SignOver(a, b) ==
    CASE a = "nan" \/ b = "nan" -> "nan"
      [] (a = "zero" /\ b = "zero") \/ (Infinite(a) /\ Infinite(b)) -> "nan"
      [] a = "zero" \/ Infinite(b) -> "zero"
      [] b = "zero" \/ Infinite(a) -> IF Negative(a) = Negative(b) THEN "pinf" ELSE "ninf"
      [] OTHER -> IF Negative(a) = Negative(b) THEN "pos" ELSE "neg"

\* Math.cos(x) for x of sign class s: the values it may return
MathCos(s) ==
    CASE s = "zero" -> {Fin(TrigGrid)}
      [] s \in {"pos", "neg"} -> {Fin(i) : i \in -TrigGrid..TrigGrid}
      [] OTHER -> {NaN}

\* Math.sin(x) / x for x of sign class s: 0 / 0 is NaN
SinOverSelf(s) ==
    CASE s \in {"pos", "neg"} -> {Fin(i) : i \in -TrigGrid..TrigGrid}
      [] OTHER -> {NaN}

\* the sinc factor without its beta === 0.0 case
sinc_beta_half_NoZeroCase(beta) == SinOverSelf(beta)

\* beta === 0.0 ? 1.0 : Math.sin(beta / 2.0) / (beta / 2.0)
sinc_beta_half(beta) ==
    IF beta = "zero" THEN {Fin(TrigGrid)} ELSE SinOverSelf(beta)

\* Math.pow(x, 2.0) left out: the factor itself
MathPow2_Omitted(x) == x

\* Math.pow(x, 2.0)
MathPow2(x) ==
    CASE isFinite(x) -> Fin(x.v * x.v)
      [] isNaN(x) -> NaN
      [] OTHER -> PosInf

\* a * b of two squares
Product(a, b) ==
    CASE isNaN(a) \/ isNaN(b) -> NaN
      [] isFinite(a) /\ isFinite(b) -> Fin(a.v * b.v)
      [] (isFinite(a) /\ a.v = 0) \/ (isFinite(b) /\ b.v = 0) -> NaN
      [] OTHER -> PosInf

\* the part of getInterferenceIntensity below its guard: the values
\* interference * diffraction may take
IntensityFormula(posOnScreen, p) ==
    LET k == SignOver("pos", Sign(p.wavelength))
        D == Sign(p.screenDistance)
        d == Sign(p.slitSeparation)
        w == Sign(p.slitWidth)
        z == Sign(posOnScreen)
        pathDiff == SignOver(SignTimes(d, z), D)
        phi == SignTimes(k, pathDiff)
        interference == {MathPow2(c) : c \in MathCos(phi)}
        beta == SignOver(SignTimes(SignTimes(k, w), z), D)
        diffraction == {MathPow2(s) : s \in sinc_beta_half(beta)}
    IN  {Product(i, f) : i \in interference, f \in diffraction}

\* getInterferenceIntensity with the guard taken out
getInterferenceIntensity_NoGuard(posOnScreen, p) == IntensityFormula(posOnScreen, p)

\* getInterferenceIntensity(posOnScreen, params): the values it may return
getInterferenceIntensity(posOnScreen, p) ==
    IF Le(p.screenDistance, Fin(0)) \/ Le(p.wavelength, Fin(0))
    THEN {Fin(0)}
    ELSE IntensityFormula(posOnScreen, p)

(***************************************************************************)
(* Particle generation: the rejection-sampling loop of generateParticles   *)
(*                                                                         *)
(* A Math.random() result is a fraction n/d of [0, 1).  A particle is      *)
(* [position |-> <<x, y, z>>, startTime], positions in thousandths and     *)
(* startTime in microseconds of simulation time.                           *)
(***************************************************************************)
numParticles == 500
screenWidth == 12
AttemptsPerParticle == 200

maxAttempts == numParticles * AttemptsPerParticle

Draw(n, d) == [n |-> n, d |-> d]

\* the Math.random() results the model samples, per call site
PositionDraws == {Draw(0, 1), Draw(1, 2), Draw(999, 1000)}
ThresholdDraws == {Draw(0, 1), Draw(1, 2), Draw(999, 1000)}
RevealDraws == {Draw(0, 1), Draw(4999, 5000)}

\* the candidate position without the shift by half the screen
CandidateZ_NotCentred(r) == Fin((r.n * screenWidth * 1000) \div r.d)

\* (Math.random() - 0.5) * screenWidth
CandidateZ(r) == Fin((r.n * screenWidth * 1000) \div r.d - (screenWidth * 1000) \div 2)

\* numParticles / params.particleRate, in microseconds
totalDuration(p) ==
    LET rate == p.particleRate
    IN  CASE isNaN(rate) -> NaN
          [] ~isFinite(rate) -> Fin(0)
          [] rate.v = 0 -> PosInf
          [] rate.v < 0 -> Fin(-(((numParticles * 1000000) \div (-rate.v)) * 1000))
          [] OTHER -> Fin(((numParticles * 1000000) \div rate.v) * 1000)

\* a startTime drawn from twice the duration
RandomTimes_TwiceDuration(r, T) ==
    CASE isNaN(T) -> NaN
      [] isFinite(T) -> Fin((T.v \div r.d) * r.n * 2)
      [] OTHER -> IF r.n = 0 THEN NaN ELSE T

\* Math.random() * totalDuration
RandomTimes(r, T) ==
    CASE isNaN(T) -> NaN
      [] isFinite(T) -> Fin((T.v \div r.d) * r.n)
      [] OTHER -> IF r.n = 0 THEN NaN ELSE T

\* the acceptance test taken as Math.random() <= probability
Accepts_OrEqual(u, probability) ==
    \/ probability = PosInf
    \/ isFinite(probability) /\ u.n * One <= probability.v * u.d

\* Math.random() < probability, for the draw u
Accepts(u, probability) ==
    \/ probability = PosInf
    \/ isFinite(probability) /\ u.n * One < probability.v * u.d

\* can a loop pass on params p accept the candidate of position draw r?
CanAccept(r, p) ==
    \E u \in ThresholdDraws : \E probability \in getInterferenceIntensity(CandidateZ(r), p) :
        Accepts(u, probability)

\* can a loop pass on params p reject its candidate?
CanReject(p) ==
    \E r \in PositionDraws : \E u \in ThresholdDraws :
        \E probability \in getInterferenceIntensity(CandidateZ(r), p) :
            ~Accepts(u, probability)

\* the particles an accepting pass may push, for position draws zs and
\* reveal draws ts
Candidates(p, zs, ts) ==
    { [position |-> <<p.screenDistance, Fin(0), CandidateZ(r)>>,
       startTime |-> RandomTimes(t, totalDuration(p))] :
      r \in {q \in zs : CanAccept(q, p)}, t \in ts }

\* the loop condition taken on the attempts alone
LoopContinues_AttemptsOnly(length, attempts) == attempts < maxAttempts

\* newParticles.length < numParticles && attempts < maxAttempts
LoopContinues(length, attempts) == length < numParticles /\ attempts < maxAttempts

\* the particles followed through the component: at the centre of the
\* screen, revealed at once or after 1/5000 of totalDuration
PopulationCandidates(p) == Candidates(p, {Draw(1, 2)}, {Draw(0, 1), Draw(1, 5000)})

\* the populations of at most MaxPopulation particles generateParticles can
\* hand to setAllParticles (the budget of attempts ran out that early)
Populations(p) ==
    UNION { [1..n -> PopulationCandidates(p)] : n \in 0..MaxPopulation }

(***************************************************************************)
(* Simulation clock: useAnimationLoop / the animation effect               *)
(***************************************************************************)
\* the config the animation effect closes over (its dependency list)
AnimationConfig(p) == [isPaused |-> p.isPaused, timeScale |-> p.timeScale]

\* the effect with isPaused missing from its dependency list
AnimationEffectReruns_NoPausedDep(old, new) == old.timeScale # new.timeScale

\* the effect with timeScale missing from its dependency list
AnimationEffectReruns_NoTimeScaleDep(old, new) == old.isPaused # new.isPaused

\* does a render with new params re-run the animation effect?
AnimationEffectReruns(old, new) ==
    old.isPaused # new.isPaused \/ old.timeScale # new.timeScale

\* the closure scheduled after a render: a re-run effect cancels the pending
\* frame and requests one for a closure over the new config
LoopAfterRender(old, new, cur) ==
    IF AnimationEffectReruns(old, new) THEN AnimationConfig(new) ELSE cur

\* animate with the delta taken the wrong way round
animate_ReversedDelta(config, ref, timestamp) ==
    IF config.isPaused
    THEN [ref EXCEPT !.lastTimestamp = 0]
    ELSE LET last == IF ref.lastTimestamp = 0 THEN timestamp ELSE ref.lastTimestamp
             delta == last - timestamp
             newSimTime == Plus(ref.simTime, Scale(delta, config.timeScale))
         IN  [simTime |-> newSimTime, lastTimestamp |-> timestamp]

\* animate(timestamp) on timeRef: the new [simTime, lastTimestamp]
animate(config, ref, timestamp) ==
    IF config.isPaused
    THEN [ref EXCEPT !.lastTimestamp = 0]
    ELSE LET last == IF ref.lastTimestamp = 0 THEN timestamp ELSE ref.lastTimestamp
             delta == timestamp - last
             newSimTime == Plus(ref.simTime, Scale(delta, config.timeScale))
         IN  [simTime |-> newSimTime, lastTimestamp |-> timestamp]

\* resetTime that clears the marker and keeps the accumulated time
resetTime_KeepsTime == [simTime |-> simTime, lastTimestamp |-> 0]

\* resetTime that zeroes the time and forgets to clear the marker
resetTime_KeepsMarker == [simTime |-> Fin(0), lastTimestamp |-> lastTimestamp]

\* resetTime(): timeRef.current = { simTime: 0, lastTimestamp: 0 }
resetTime == [simTime |-> Fin(0), lastTimestamp |-> 0]

TimeRef == [simTime |-> simTime, lastTimestamp |-> lastTimestamp]

\* cancelAnimationFrame as a call that cancels nothing
cancelAnimationFrame_Noop(frames, id) == frames

\* cancelAnimationFrame(id) on the pending requests
cancelAnimationFrame(frames, id) == {f \in frames : f.id # id}

\* the id requestAnimationFrame returns: one that no pending request carries
\* (the browser never hands out an id twice; the model takes the smallest
\* one that is free, the variable that held it being overwritten at once)
RequestId(frames) ==
    CHOOSE i \in 1..(Cardinality(frames) + 1) : \A f \in frames : f.id # i

\* requestAnimationFrame(animate) for the closure over config
requestAnimationFrame(frames, config) ==
    frames \cup {[id |-> RequestId(frames), config |-> config]}

\* the cleanup of the animation effect followed by the effect of the new
\* render: cancelAnimationFrame(animationFrameId), then a request for the
\* closure over the new config
FramesAfterRender(old, new, frames, id) ==
    IF AnimationEffectReruns(old, new)
    THEN requestAnimationFrame(cancelAnimationFrame(frames, id), AnimationConfig(new))
    ELSE frames

\* the WaveField effect reading the simulation time of the render before
uTimeEffect_Stale(p, rendered, previous) == IF p.showWaves THEN previous ELSE Fin(0)

\* WaveField's effect on [simulationTime]: uniforms.uTime.value = simulationTime
\* (the uniform is created as 0.0 and there is none while showWaves is off)
uTimeEffect(p, rendered, previous) == IF p.showWaves THEN rendered ELSE Fin(0)

ValidatorIdle ==
    /\ arg = DefaultParams
    /\ res = DefaultParams
    /\ prevRes = DefaultParams
    /\ calls = 0

\* useState initialiser of the component that owns params
InitialParams(h) ==
    IF h = "SimulationProvider"
    THEN validatePhysicsConstraints(DefaultParams)
    ELSE DefaultParams

\* no pure-function run is under way
ProbeIdle == probe = [fn |-> "none"]

\* the component's state after its first render and effects: particleMode is
\* off, so the generation effect has cleared the (empty) collections
Mounted ==
    /\ params = InitialParams(host)
    /\ supplied = DefaultParams
    /\ simTime = Fin(0)
    /\ lastTimestamp = 0
    /\ simulationTime = Fin(0)
    /\ loop = AnimationConfig(params)
    /\ now = 0
    /\ lastOp = "mount"
    /\ allParticles = <<>>
    /\ visibleParticles = <<>>
    /\ populationId = 0
    /\ visibilityDue = FALSE
    /\ pendingFrames = requestAnimationFrame({}, AnimationConfig(params))
    /\ animationFrameId = RequestId({})
    /\ tornDown = FALSE
    /\ uTime = uTimeEffect(params, Fin(0), Fin(0))

Init ==
    /\ host \in Hosts
    /\ Mounted
    /\ ValidatorIdle
    /\ ProbeIdle

\* the pending callback f runs for a frame with this timestamp: animate, then
\* the render its setSimulationTime causes with the WaveField effect of that
\* render; the callback ends by requesting the next frame
animationFrame(f, timestamp) ==
    /\ ~visibilityDue
    /\ now' = timestamp
    /\ LET ref == animate(f.config, TimeRef, timestamp)
       IN  /\ simTime' = ref.simTime
           /\ lastTimestamp' = ref.lastTimestamp
           /\ simulationTime' = IF f.config.isPaused THEN simulationTime ELSE ref.simTime
    /\ uTime' = uTimeEffect(params, simulationTime', simulationTime)
    /\ pendingFrames' = requestAnimationFrame(pendingFrames \ {f}, f.config)
    /\ animationFrameId' = IF f.id = animationFrameId
                            THEN RequestId(pendingFrames \ {f})
                            ELSE animationFrameId
    /\ visibilityDue' = (params.particleMode /\ simulationTime' # simulationTime)
    /\ lastOp' = "tick"
    /\ UNCHANGED <<host, params, supplied, loop, arg, res, prevRes, calls,
                   allParticles, visibleParticles, populationId, tornDown, probe>>

\* one requestAnimationFrame callback: the frame's timestamp is positive and
\* never below the previous frame's
Tick ==
    \E gap \in 0..MaxFrameGap : \E f \in pendingFrames :
        /\ now + gap >= 1
        /\ now + gap <= MaxNow
        /\ animationFrame(f, now + gap)

\* the first frame after the page was hidden for a while
LateTick ==
    \E f \in pendingFrames :
        /\ now <= MaxNow
        /\ animationFrame(f, now + LongFrameGap)

(***************************************************************************)
(* The params state and its setter                                         *)
(***************************************************************************)
\* the value the setter stores for the SetStateAction result newParams
StoredParams(h, newParams) ==
    IF h = "SimulationProvider"
    THEN validatePhysicsConstraints(newParams)
    ELSE newParams

\* dependency list of the particle generation effect
GenerationDeps(p) ==
    <<p.particleMode, p.wavelength, p.slitSeparation, p.slitWidth,
      p.screenDistance, p.particleRate>>

\* DoubleSlitExperiment.generateParticles resets the clock; the provider's
\* useParticleSystem.generateParticles does not touch it
GenerationResetsClock(h, old, new) ==
    /\ h = "DoubleSlitExperiment"
    /\ GenerationDeps(old) # GenerationDeps(new)
    /\ new.particleMode

\* the generation effect with params.particleMode missing from its list
GenerationEffectReruns_NoModeDep(h, old, new) ==
    \/ h = "SimulationProvider"
    \/ <<old.wavelength, old.slitSeparation, old.slitWidth, old.screenDistance,
         old.particleRate>> #
       <<new.wavelength, new.slitSeparation, new.slitWidth, new.screenDistance,
         new.particleRate>>

\* the generation effect listing params.particleMode alone
GenerationEffectReruns_ModeOnly(h, old, new) == old.particleMode # new.particleMode

\* the generation effect re-runs when one of the six listed fields changes;
\* useParticleSystem also lists generateParticles, a useCallback on [params]
\* that is a new function after every setParams, so there it always re-runs
GenerationEffectReruns(h, old, new) ==
    \/ h = "SimulationProvider"
    \/ GenerationDeps(old) # GenerationDeps(new)

\* the identity of the array a new call of generateParticles installs
NextPopulationId == IF populationId = 1 THEN 2 ELSE 1

\* allParticles.filter(p => p.startTime <= currentTime)
shouldBeVisible(particles, currentTime) ==
    SelectSeq(particles, LAMBDA q : Le(q.startTime, currentTime))

\* the visibility effect replacing the subset whenever the filtered list differs
Revealed_AnyDifference(particles, visible, currentTime) ==
    shouldBeVisible(particles, currentTime)

\* the body of the visibility effect with particleMode on: the filtered list
\* replaces the subset only when it is longer
Revealed(particles, visible, currentTime) ==
    LET filtered == shouldBeVisible(particles, currentTime)
    IN  IF Len(filtered) > Len(visible) THEN filtered ELSE visible

\* the effects of a render whose generateParticles leaves out
\* setVisibleParticles([])
ParticleEffects_KeepsVisible(old, new) ==
    /\ IF new.particleMode
       THEN allParticles' \in Populations(new)
       ELSE allParticles' = <<>>
    /\ visibleParticles' = IF new.particleMode THEN visibleParticles ELSE <<>>
    /\ populationId' = IF new.particleMode THEN NextPopulationId ELSE 0
    /\ visibilityDue' = new.particleMode

\* the generation effect and, when particleMode is among the changes of the
\* render, the visibility effect of the same render, which still closes over
\* the old collections and queues its update after the generation effect's
ParticleEffects(old, new) ==
    /\ IF new.particleMode
       THEN allParticles' \in Populations(new)
       ELSE allParticles' = <<>>
    /\ visibleParticles' =
           IF /\ new.particleMode
              /\ ~old.particleMode
              /\ Revealed(allParticles, visibleParticles, simulationTime) # visibleParticles
           THEN Revealed(allParticles, visibleParticles, simulationTime)
           ELSE <<>>
    /\ populationId' = IF new.particleMode THEN NextPopulationId ELSE 0
    /\ visibilityDue' = new.particleMode

\* setParams(action) followed by the render and the effects it triggers
Commit(newParams, op) ==
    LET stored == StoredParams(host, newParams)
    IN  /\ ~visibilityDue
        /\ ~tornDown
        /\ params' = stored
        /\ supplied' = newParams
        /\ loop' = LoopAfterRender(params, stored, loop)
        /\ pendingFrames' = FramesAfterRender(params, stored, pendingFrames, animationFrameId)
        /\ animationFrameId' =
               IF AnimationEffectReruns(params, stored)
               THEN RequestId(cancelAnimationFrame(pendingFrames, animationFrameId))
               ELSE animationFrameId
        /\ IF GenerationResetsClock(host, params, stored)
           THEN /\ simTime' = resetTime.simTime
                /\ lastTimestamp' = resetTime.lastTimestamp
                /\ simulationTime' = Fin(0)
           ELSE UNCHANGED <<simTime, lastTimestamp, simulationTime>>
        /\ uTime' = uTimeEffect(stored, simulationTime', simulationTime)
        /\ IF GenerationEffectReruns(host, params, stored)
           THEN ParticleEffects(params, stored)
           ELSE UNCHANGED <<allParticles, visibleParticles, populationId, visibilityDue>>
        /\ lastOp' = op
        /\ UNCHANGED <<host, now, tornDown, arg, res, prevRes, calls, probe>>

\* values a partial update may carry, per field
UpdateValues ==
    [slitWidth      |-> {Fin(300), Fin(2000), NaN},
     slitSeparation |-> {Fin(2000), Fin(1000)},
     timeScale      |-> {Fin(1000), Fin(2000), Fin(-1000), NaN}]

\* setParams(prev => ({ ...prev, [param]: value }))
SetParam ==
    \E key \in DOMAIN UpdateValues : \E value \in UpdateValues[key] :
        Commit([params EXCEPT ![key] = value], "setParams")

\* setParams(object): a full replacement
Replacements == {DefaultParams, [DefaultParams EXCEPT !.slitWidth = Fin(7000)]}

ReplaceParams ==
    \E p \in Replacements : Commit(p, "replace")

\* the pause button: setParams(p => ({ ...p, isPaused: !p.isPaused }))
TogglePause ==
    Commit([params EXCEPT !.isPaused = ~params.isPaused],
           IF params.isPaused THEN "resume" ELSE "pause")

\* the particle-mode checkbox
ToggleParticleMode ==
    Commit([params EXCEPT !.particleMode = ~params.particleMode],
           IF params.particleMode THEN "disable" ELSE "enable")

\* handleReset: both components zero the clock on every path, generate a
\* population with particleMode on and clear both collections with it off
handleReset ==
    /\ ~visibilityDue
    /\ ~tornDown
    /\ simTime' = resetTime.simTime
    /\ lastTimestamp' = resetTime.lastTimestamp
    /\ simulationTime' = Fin(0)
    /\ uTime' = uTimeEffect(params, simulationTime', simulationTime)
    /\ IF params.particleMode
       THEN allParticles' \in Populations(params)
       ELSE allParticles' = <<>>
    /\ visibleParticles' = <<>>
    /\ populationId' = IF params.particleMode THEN NextPopulationId ELSE 0
    /\ visibilityDue' = params.particleMode
    /\ lastOp' = "reset"
    /\ UNCHANGED <<host, params, supplied, loop, now, pendingFrames, animationFrameId,
                   tornDown, arg, res, prevRes, calls, probe>>

\* the visibility effect of the render that follows a change of the
\* simulation time or of the population (with particleMode off it returns at
\* once, so only its runs with particleMode on are steps)
VisibilityEffect ==
    /\ visibilityDue
    /\ ~tornDown
    /\ visibleParticles' =
           IF params.particleMode
           THEN Revealed(allParticles, visibleParticles, simulationTime)
           ELSE visibleParticles
    /\ visibilityDue' = FALSE
    /\ lastOp' = "reveal"
    /\ UNCHANGED <<host, params, supplied, simTime, lastTimestamp, simulationTime, loop,
                   now, arg, res, prevRes, calls, allParticles, populationId,
                   pendingFrames, animationFrameId, tornDown, uTime, probe>>

\* the component is unmounted: the cleanup of the animation effect runs
Unmount ==
    /\ ~tornDown
    /\ pendingFrames' = cancelAnimationFrame(pendingFrames, animationFrameId)
    /\ tornDown' = TRUE
    /\ lastOp' = "unmount"
    /\ UNCHANGED <<host, params, supplied, simTime, lastTimestamp, simulationTime, loop,
                   now, arg, res, prevRes, calls, allParticles, visibleParticles,
                   populationId, visibilityDue, animationFrameId, uTime, probe>>

\* the parameters and the clock, with particleMode left off
Next ==
    \/ Tick
    \/ SetParam
    \/ ReplaceParams
    \/ TogglePause
    \/ handleReset

Spec == Init /\ [][Next]_vars

\* values a partial update may carry while particles are shown
PhysicsValues ==
    [screenDistance |-> {Fin(10000), Fin(5000)},
     timeScale      |-> {Fin(1000), Fin(-1000)}]

SetPhysics ==
    \E key \in DOMAIN PhysicsValues : \E value \in PhysicsValues[key] :
        Commit([params EXCEPT ![key] = value], "setParams")

\* the particle system: the clock, the sliders, the particle-mode checkbox and
\* the effects that generate and reveal the population
NextP ==
    \/ Tick
    \/ VisibilityEffect
    \/ SetPhysics
    \/ TogglePause
    \/ ToggleParticleMode
    \/ handleReset

SpecP == Init /\ [][NextP]_vars

\* params after the Particle Rate and Time Scale sliders were moved and the
\* Particle Mode checkbox was switched on
RevealParams ==
    { [DefaultParams EXCEPT !.particleMode = TRUE, !.particleRate = rate,
                            !.timeScale = scale] :
      rate \in {Fin(100000), Fin(200000)}, scale \in {Fin(1000), Fin(500)} }

\* the populations followed to the end of their reveal: particles revealed
\* at once, early, and just before totalDuration
RevealPopulations(p) ==
    UNION { [1..n -> Candidates(p, {Draw(1, 2)}, RevealDraws \cup {Draw(1, 5000)})] :
            n \in 0..MaxPopulation }

\* particle mode has just been entered on a freshly mounted component: the
\* population is generated and its first visibility effect is pending
InitR ==
    /\ host \in Hosts
    /\ supplied \in RevealParams
    /\ params = StoredParams(host, supplied)
    /\ simTime = Fin(0)
    /\ lastTimestamp = 0
    /\ simulationTime = Fin(0)
    /\ loop = AnimationConfig(params)
    /\ now = 0
    /\ lastOp = "enable"
    /\ allParticles \in RevealPopulations(params)
    /\ visibleParticles = <<>>
    /\ populationId = 1
    /\ visibilityDue = TRUE
    /\ pendingFrames = requestAnimationFrame({}, AnimationConfig(params))
    /\ animationFrameId = RequestId({})
    /\ tornDown = FALSE
    /\ uTime = uTimeEffect(params, Fin(0), Fin(0))
    /\ ValidatorIdle
    /\ ProbeIdle

\* the reveal of one population: frames and the visibility effect, with no
\* further change of params and no reset
NextR ==
    \/ Tick
    \/ LateTick
    \/ VisibilityEffect

SpecR == InitR /\ [][NextR]_vars

\* the life of the frame subscription: frames, pause and resume, reset and
\* the teardown of the component
NextU ==
    \/ Tick
    \/ SetPhysics
    \/ TogglePause
    \/ handleReset
    \/ Unmount

SpecU == Init /\ [][NextU]_vars

(***************************************************************************)
(* Validator runs: validate applied to supplied params, then to its result *)
(***************************************************************************)
\* classes of supplied value for the fields other than the two slit fields
ValueClasses == {"ok", "nan", "posinf", "neginf", "low", "high"}

ClassValue(key, class) ==
    CASE class = "nan" -> NaN
      [] class = "posinf" -> PosInf
      [] class = "neginf" -> NegInf
      [] class = "low" -> Fin(PARAM_BOUNDS[key].min - 50)
      [] class = "high" -> Fin(PARAM_BOUNDS[key].max + 50)
      [] OTHER -> DefaultParams[key]

OtherKeys == NumericKeys \ {"slitWidth", "slitSeparation"}

\* which of the other fields carry the chosen class: none, one, or all
OtherKeySets == {{}} \cup {{key} : key \in OtherKeys} \cup {OtherKeys}

SlitWidthInputs == {NaN, PosInf, NegInf, Fin(-1000), Fin(50), Fin(300), Fin(2000),
                    Fin(3000), Fin(7000), Fin(20000)}
SlitSeparationInputs == {NaN, PosInf, NegInf, Fin(-1000), Fin(200), Fin(1000), Fin(2000),
                         Fin(4000), Fin(15000)}

ValidatorInputs ==
    { [key \in DOMAIN DefaultParams |->
          CASE key = "slitWidth" -> w
            [] key = "slitSeparation" -> d
            [] key \in BoolKeys -> b
            [] key \in keys -> ClassValue(key, class)
            [] OTHER -> DefaultParams[key]] :
      w \in SlitWidthInputs, d \in SlitSeparationInputs, b \in BOOLEAN,
      class \in ValueClasses, keys \in OtherKeySets }

InitV ==
    /\ host = "SimulationProvider"
    /\ Mounted
    /\ ProbeIdle
    /\ arg \in ValidatorInputs
    /\ res = arg
    /\ prevRes = arg
    /\ calls = 0

\* validate(arg), then validate of the result
Validate ==
    /\ calls < MaxCalls
    /\ res' = validatePhysicsConstraints(res)
    /\ prevRes' = res
    /\ calls' = calls + 1
    /\ UNCHANGED <<componentVars, arg, probe>>

NextV == Validate

SpecV == InitV /\ [][NextV]_vars

(***************************************************************************)
(* Runs of generateParticles.  The passes of the loop that reject their    *)
(* candidate only count an attempt, so one step takes the loop through the *)
(* rejecting passes up to and including the next accepting pass, or        *)
(* through all the passes that are left when none of them accepts.         *)
(***************************************************************************)
\* how many candidates a run rejects before each one it accepts
RejectRuns == {0, AttemptsPerParticle - 1, AttemptsPerParticle}

\* params a run is started on: inside the validated ranges, and with the
\* degenerate geometry the intensity guard answers with 0
GeneratorParams ==
    { [DefaultParams EXCEPT !.particleMode = TRUE, !.particleRate = rate,
                            !.screenDistance = D, !.wavelength = lambda] :
      rate \in {Fin(10000), Fin(100000), Fin(1000000)},
      D \in {Fin(10000), Fin(0)},
      lambda \in {Fin(500), Fin(-500)} }

\* per params of a run: the particles a pass may push, and whether a pass may
\* reject
PushedBy == [p \in GeneratorParams |-> Candidates(p, PositionDraws, RevealDraws)]
RejectedBy == [p \in GeneratorParams |-> CanReject(p)]

InitG ==
    /\ host = "SimulationProvider"
    /\ Mounted
    /\ ValidatorIdle
    /\ probe \in { [fn |-> "generateParticles", params |-> p, rejectRun |-> run,
                    length |-> 0, attempts |-> 0, last |-> <<>>, done |-> FALSE] :
                   p \in GeneratorParams, run \in RejectRuns }

\* passes of the while loop: `rejected` passes that only count an attempt,
\* then one that pushes a particle, unless the attempts run out first
LoopPasses ==
    /\ ~probe.done
    /\ LoopContinues(probe.length, probe.attempts)
    /\ \E rejected \in {probe.rejectRun, maxAttempts} :
           /\ rejected > 0 => RejectedBy[probe.params]
           /\ IF probe.attempts + rejected >= maxAttempts
              THEN probe' = [probe EXCEPT !.attempts = maxAttempts]
              ELSE \E particle \in PushedBy[probe.params] :
                       probe' = [probe EXCEPT !.attempts = probe.attempts + rejected + 1,
                                              !.length = probe.length + 1,
                                              !.last = <<particle>>]
    /\ UNCHANGED <<componentVars, arg, res, prevRes, calls>>

\* the loop has ended: setAllParticles(newParticles); setVisibleParticles([])
ReturnPopulation ==
    /\ ~probe.done
    /\ ~LoopContinues(probe.length, probe.attempts)
    /\ probe' = [probe EXCEPT !.done = TRUE]
    /\ UNCHANGED <<componentVars, arg, res, prevRes, calls>>

NextG ==
    \/ LoopPasses
    \/ ReturnPopulation

SpecG == InitG /\ [][NextG]_vars

(***************************************************************************)
(* Calls of getInterferenceIntensity                                       *)
(***************************************************************************)
PositionInputs == {NaN, Fin(-6000), Fin(-2500), Fin(0), Fin(1500), Fin(5988)}

IntensityParams ==
    { [DefaultParams EXCEPT !.wavelength = lambda, !.screenDistance = D,
                            !.slitSeparation = d, !.slitWidth = w] :
      lambda \in {Fin(500), Fin(100), Fin(2000), Fin(0), Fin(-500), NaN},
      D \in {Fin(10000), Fin(1000), Fin(20000), Fin(0), Fin(-1000), NegInf, NaN},
      d \in {Fin(2000), Fin(500), Fin(10000), NaN},
      w \in {Fin(300), Fin(100), Fin(5000), NaN, PosInf} }

InitI ==
    /\ host = "SimulationProvider"
    /\ Mounted
    /\ ValidatorIdle
    /\ probe \in { [fn |-> "getInterferenceIntensity", posOnScreen |-> z, params |-> p,
                    done |-> FALSE, result |-> NaN] :
                   z \in PositionInputs, p \in IntensityParams }

\* one call: the function returns one of the values it may return
EvaluateIntensity ==
    /\ ~probe.done
    /\ \E value \in getInterferenceIntensity(probe.posOnScreen, probe.params) :
           probe' = [probe EXCEPT !.done = TRUE, !.result = value]
    /\ UNCHANGED <<componentVars, arg, res, prevRes, calls>>

NextI == EvaluateIntensity

SpecI == InitI /\ [][NextI]_vars

(***************************************************************************)
(* FringeMarkers: the markers of the predicted bright fringes              *)
(***************************************************************************)
numMarkers == 10

\* (wavelength * screenDistance) / slitSeparation, in thousandths
fringeSpacing(p) ==
    LET lambda == p.wavelength
        D == p.screenDistance
        d == p.slitSeparation
        product == IF isFinite(lambda) /\ isFinite(D) THEN Fin(lambda.v * D.v) ELSE NaN
    IN  CASE isNaN(product) \/ isNaN(d) -> NaN
          [] ~isFinite(d) -> Fin(0)
          [] d.v # 0 -> Fin(product.v \div d.v)
          [] product.v = 0 -> NaN
          [] OTHER -> IF product.v > 0 THEN PosInf ELSE NegInf

\* the positions of the meshes pushed by the loop over i = -numMarkers..numMarkers
MarkerPositions(p) ==
    [n \in 1..(2 * numMarkers + 1) |->
        <<Plus(p.screenDistance, Fin(100)), Fin(0),
          Scale(n - numMarkers - 1, fringeSpacing(p))>>]

\* FringeMarkers returning nothing for a negative slitSeparation only
FringeMarkers_StrictGuard(p) ==
    IF Gt(Fin(0), p.slitSeparation) THEN <<>> ELSE MarkerPositions(p)

\* FringeMarkers({ slitSeparation, wavelength, screenDistance })
FringeMarkers(p) ==
    IF Le(p.slitSeparation, Fin(0)) THEN <<>> ELSE MarkerPositions(p)

FringeParams ==
    { [DefaultParams EXCEPT !.wavelength = lambda, !.screenDistance = D,
                            !.slitSeparation = d] :
      lambda \in {Fin(500), Fin(300), Fin(1000), Fin(2000)},
      D \in {Fin(10000), Fin(5000), Fin(20000), Fin(1000)},
      d \in {Fin(2000), Fin(500), Fin(1000), Fin(10000), PosInf, Fin(0), Fin(-1000),
             NegInf, NaN} }

InitF ==
    /\ host = "SimulationProvider"
    /\ Mounted
    /\ ValidatorIdle
    /\ probe \in { [fn |-> "FringeMarkers", params |-> p, done |-> FALSE, markers |-> <<>>] :
                   p \in FringeParams }

\* one render of the component
RenderFringeMarkers ==
    /\ ~probe.done
    /\ probe' = [probe EXCEPT !.done = TRUE, !.markers = FringeMarkers(probe.params)]
    /\ UNCHANGED <<componentVars, arg, res, prevRes, calls>>

NextF == RenderFringeMarkers

SpecF == InitF /\ [][NextF]_vars

(***************************************************************************)
(* formatParamValue (utils/validation.ts).  A string is the sequence of    *)
(* its characters.                                                         *)
(***************************************************************************)
DigitChars == <<"0", "1", "2", "3", "4", "5", "6", "7", "8", "9">>

RECURSIVE DecimalDigits(_)
\* the decimal digits of the integer n >= 0
DecimalDigits(n) ==
    IF n < 10 THEN <<DigitChars[n + 1]>>
    ELSE DecimalDigits(n \div 10) \o <<DigitChars[(n % 10) + 1]>>

\* 10^f for the precisions in use
PowerOfTen(f) == CASE f = 0 -> 1 [] f = 1 -> 10 [] f = 2 -> 100 [] OTHER -> 1000

\* the digits of n / 10^f with exactly f decimals
FixedDigits(n, f) ==
    LET whole == DecimalDigits(n \div PowerOfTen(f))
        fraction == n % PowerOfTen(f)
    IN  CASE f = 0 -> whole
          [] f = 1 -> whole \o <<".">> \o DecimalDigits(fraction)
          [] OTHER -> whole \o <<".">> \o <<DigitChars[(fraction \div 10) + 1],
                                            DigitChars[(fraction % 10) + 1]>>

\* Number.prototype.toFixed(f): the integer n with n / 10^f nearest to the
\* number, the larger n of two equally near.  A value of the model stands for
\* the double nearest to it: the two are the same number when the value is a
\* multiple of 0.125, and otherwise the double lies to one side of a decimal
\* half-way point, so that either neighbour may be the result
toFixed(x, f) ==
    CASE isNaN(x) -> {<<"N", "a", "N">>}
      [] x = PosInf -> {<<"I", "n", "f", "i", "n", "i", "t", "y">>}
      [] x = NegInf -> {<<"-", "I", "n", "f", "i", "n", "i", "t", "y">>}
      [] OTHER ->
           LET a == IF x.v < 0 THEN -x.v ELSE x.v
               unit == 1000 \div PowerOfTen(f)
               below == a \div unit
               rest == a % unit
               ns == CASE 2 * rest < unit -> {below}
                       [] 2 * rest > unit -> {below + 1}
                       [] a % 125 = 0 -> {below + 1}
                       [] OTHER -> {below, below + 1}
               sign == IF x.v < 0 THEN <<"-">> ELSE <<>>
           IN  {sign \o FixedDigits(n, f) : n \in ns}

\* bounds.max - bounds.min, in thousandths
range(key) == PARAM_BOUNDS[key].max - PARAM_BOUNDS[key].min

\* the precision formatParamValue picks for the field
precision(key) ==
    IF range(key) < 1000 THEN 2
    ELSE IF range(key) < 10000 THEN 1
    ELSE 0

\* formatParamValue(key, value): the strings it may return
formatParamValue(key, value) == toFixed(value, precision(key))

FormatInputs == {Fin(532), Fin(333), Fin(15700), Fin(250500), Fin(500), Fin(0), Fin(-1),
                 Fin(125), Fin(535), Fin(250), Fin(350), Fin(2500), Fin(999), NaN, PosInf,
                 NegInf}

InitT ==
    /\ host = "SimulationProvider"
    /\ Mounted
    /\ ValidatorIdle
    /\ probe \in { [fn |-> "formatParamValue", key |-> key, value |-> value,
                    done |-> FALSE, result |-> <<>>] :
                   key \in NumericKeys, value \in FormatInputs }

\* one call: the function returns one of the strings it may return
FormatValue ==
    /\ ~probe.done
    /\ \E text \in formatParamValue(probe.key, probe.value) :
           probe' = [probe EXCEPT !.done = TRUE, !.result = text]
    /\ UNCHANGED <<componentVars, arg, res, prevRes, calls>>

NextT == FormatValue

SpecT == InitT /\ [][NextT]_vars

(***************************************************************************)
(* ControlPanel: the sliders and checkboxes, and the params the owning     *)
(* component holds after each change (the clock and the particle effects   *)
(* that a change also triggers are followed in Spec and SpecP)             *)
(***************************************************************************)
\* the slit-width slider reaching up to the validator's maximum
SliderRanges_WideSlitWidth ==
    [wavelength     |-> [min |-> 300,   max |-> 1000],
     slitSeparation |-> [min |-> 1000,  max |-> 4000],
     slitWidth      |-> [min |-> 100,   max |-> 5000],
     screenDistance |-> [min |-> 5000,  max |-> 20000],
     waveSpeed      |-> [min |-> 500,   max |-> 5000],
     particleRate   |-> [min |-> 10000, max |-> 200000],
     timeScale      |-> [min |-> 100,   max |-> 3000],
     amplitude      |-> [min |-> 100,   max |-> 1000]]

\* min and max of each AccessibleSlider, in thousandths
SliderRanges ==
    [wavelength     |-> [min |-> 300,   max |-> 1000],
     slitSeparation |-> [min |-> 1000,  max |-> 4000],
     slitWidth      |-> [min |-> 100,   max |-> 500],
     screenDistance |-> [min |-> 5000,  max |-> 20000],
     waveSpeed      |-> [min |-> 500,   max |-> 5000],
     particleRate   |-> [min |-> 10000, max |-> 200000],
     timeScale      |-> [min |-> 100,   max |-> 3000],
     amplitude      |-> [min |-> 100,   max |-> 1000]]

\* the values a slider is moved to: the two ends of its range
SliderValues(key) == {Fin(SliderRanges[key].min), Fin(SliderRanges[key].max)}

\* the slider is rendered and not disabled
SliderEnabled(key, p) ==
    CASE key \in {"waveSpeed", "amplitude"} -> p.showWaves
      [] key = "particleRate" -> p.particleMode
      [] OTHER -> TRUE

CheckboxKeys == {"showWaves", "particleMode"}

InitS ==
    /\ host \in Hosts
    /\ Mounted
    /\ ValidatorIdle
    /\ probe = [fn |-> "ControlPanel", params |-> params, supplied |-> params]

\* setParams(prev => ({ ...prev, [param]: value })) through the setter the
\* component hands to ControlPanel
PanelChange(key, value) ==
    LET newParams == [probe.params EXCEPT ![key] = value]
    IN  /\ probe' = [probe EXCEPT !.supplied = newParams,
                                  !.params = StoredParams(host, newParams)]
        /\ UNCHANGED <<componentVars, arg, res, prevRes, calls>>

handleSliderChange ==
    \E key \in DOMAIN SliderRanges : \E value \in SliderValues(key) :
        /\ SliderEnabled(key, probe.params)
        /\ PanelChange(key, value)

handleCheckboxChange ==
    \E key \in CheckboxKeys : PanelChange(key, ~probe.params[key])

NextS ==
    \/ handleSliderChange
    \/ handleCheckboxChange

SpecS == InitS /\ [][NextS]_vars

(***************************************************************************)
(* Clock properties                                                        *)
(***************************************************************************)
Running == ~params.isPaused

\* C1: a tick delivered while isPaused is true leaves the accumulated and the
\* exposed simulation time as they were and clears the last-timestamp marker.
C1_PausedTickFreezesTime ==
    [][(lastOp' = "tick" /\ params.isPaused) =>
          /\ simTime' = simTime
          /\ simulationTime' = simulationTime
          /\ lastTimestamp' = 0]_vars

\* a paused tick has run mid-run: time had accumulated and is still there
C1_Witness ==
    /\ lastOp = "tick"
    /\ params.isPaused
    /\ isFinite(simTime) /\ simTime.v > 0
    /\ simulationTime = simTime
    /\ lastTimestamp = 0

\* C2: under the validated setter (timeScale > 0 always) a tick while RUNNING
\* never decreases the accumulated simulation time, and the accumulated time
\* is never negative after it; frame timestamps never decrease.
C2_RunningTicksMonotone ==
    [][(lastOp' = "tick" /\ Running /\ host = "SimulationProvider"
            /\ Gt(params.timeScale, Fin(0)) /\ now' >= now) =>
          /\ Ge(simTime', simTime)
          /\ Ge(simTime', Fin(0))]_vars

\* a running tick has advanced the provider's clock
C2_Witness ==
    /\ host = "SimulationProvider"
    /\ lastOp = "tick"
    /\ Running
    /\ Gt(params.timeScale, Fin(0))
    /\ Gt(simTime, Fin(0))

\* C3: the first tick after a PAUSED -> RUNNING transition adds nothing to the
\* simulation time (its delta is 0).
C3_NoJumpAfterResume ==
    [][(lastOp = "resume" /\ lastOp' = "tick") => simTime' = simTime]_vars

\* C4: reset leaves accumulated and exposed time at 0 with the marker cleared,
\* in any state; the tick that follows it (timeScale finite) leaves both at 0.
C4_ResetZeroesClock ==
    [][/\ lastOp' = "reset" =>
            /\ simTime' = Fin(0)
            /\ simulationTime' = Fin(0)
            /\ lastTimestamp' = 0
       /\ (lastOp = "reset" /\ lastOp' = "tick" /\ isFinite(params.timeScale)) =>
            /\ simTime' = Fin(0)
            /\ simulationTime' = Fin(0)]_vars

\* reset has acted mid-run: frames have been delivered and the clock is running
C4_Witness ==
    /\ lastOp = "reset"
    /\ Running
    /\ now >= 2
    /\ simTime = Fin(0)
    /\ simulationTime = Fin(0)
    /\ lastTimestamp = 0

\* a step that changes timeScale and nothing else of params
OnlyTimeScaleChanges ==
    /\ params'.timeScale # params.timeScale
    /\ [params' EXCEPT !.timeScale = params.timeScale] = params

\* C5: a running tick whose marker is set advances the accumulated time by
\* (timestamp - previous frame's timestamp) x the timeScale of the current
\* params; a change of timeScale alone leaves time and marker as they were.
C5_TickAdvancesByScaledDelta ==
    [][/\ (lastOp' = "tick" /\ Running /\ lastTimestamp # 0) =>
            /\ simTime' = Plus(simTime, Scale(now' - now, params.timeScale))
            /\ simulationTime' = simTime'
       /\ OnlyTimeScaleChanges =>
            /\ simTime' = simTime
            /\ simulationTime' = simulationTime
            /\ lastTimestamp' = lastTimestamp]_vars

\* 1 ms at timeScale 1.0 and 1 ms at timeScale 2.0: the change took effect on
\* the next tick
C5_Witness ==
    /\ lastOp = "tick"
    /\ Running
    /\ now = 3
    /\ params.timeScale = Fin(2000)
    /\ simTime = Fin(3000)

(***************************************************************************)
(* Validator properties (SpecV: res is validate(arg) once calls = 1)       *)
(***************************************************************************)
InBounds(key, x) ==
    /\ isFinite(x)
    /\ PARAM_BOUNDS[key].min <= x.v
    /\ x.v <= PARAM_BOUNDS[key].max

AllInBounds(p) == \A key \in NumericKeys : InBounds(key, p[key])

FlagsKept(in, out) == \A key \in BoolKeys : out[key] = in[key]

C7_ValidateIdempotent ==
    calls = 2 => res = prevRes

\* C8: when the clamped slitWidth is >= the clamped slitSeparation, the result
\* has slitWidth = 0.8 x the result's slitSeparation.
C8_RepairGivesEightyPercent ==
    (/\ calls = 1
     /\ Ge(arg.slitWidth, arg.slitSeparation)
     /\ Ge(validateParam("slitWidth", arg.slitWidth),
           validateParam("slitSeparation", arg.slitSeparation))) =>
        res.slitWidth = Times08(res.slitSeparation)

(***************************************************************************)
(* Properties of the params state                                          *)
(***************************************************************************)
\* C9: the params held by SimulationProvider always pass validateSlitConstraints
\* (slitWidth < slitSeparation).
C9_ProviderKeepsSlitConstraint ==
    host = "SimulationProvider" =>
        validateSlitConstraints(params.slitWidth, params.slitSeparation) = "null"

\* C10: the params every consumer reads are the validated form of the value
\* the last setter call supplied.
C10_ParamsAlwaysValidated ==
    params = validatePhysicsConstraints(supplied)

(***************************************************************************)
(* Properties of generateParticles (SpecG)                                 *)
(***************************************************************************)
\* C11: a run of generateParticles never holds more than numParticles = 500
\* particles nor counts more than maxAttempts = 500 x 200 = 100000 attempts;
\* it returns exactly when one of the two limits is reached, with the
\* particles collected so far; until then it is never stuck and every step
\* uses up at least one more of the attempts, so it always stops.
C11_GenerateStops ==
    /\ [](/\ probe.length <= numParticles
          /\ probe.attempts <= maxAttempts
          /\ maxAttempts = 100000
          /\ probe.done => (probe.length = numParticles \/ probe.attempts = maxAttempts)
          /\ ~probe.done => ENABLED NextG)
    /\ [][~probe.done =>
             \/ probe'.done /\ probe'.length = probe.length
                            /\ (probe.length = numParticles \/ probe.attempts = maxAttempts)
             \/ ~probe'.done /\ probe'.attempts > probe.attempts]_vars

\* a run has returned a population shorter than 500 after 100000 attempts
C11_Witness ==
    /\ probe.done
    /\ probe.length > 0
    /\ probe.length < numParticles
    /\ probe.attempts = maxAttempts

\* C15: every particle a run pushes, however many attempts and particles the
\* run has counted so far, has a startTime in [0, totalDuration) with
\* totalDuration = 500 / particleRate, and the position
\* (screenDistance, 0, z) with -6 <= z <= 6.
C15_ParticleWithinRanges ==
    \A i \in 1..Len(probe.last) :
        LET q == probe.last[i]
            T == totalDuration(probe.params)
        IN  /\ isFinite(T)
            /\ (T.v \div 1000) * (probe.params.particleRate.v \div 1000) = 500 * 1000
            /\ Ge(q.startTime, Fin(0))
            /\ Gt(T, q.startTime)
            /\ q.position[1] = probe.params.screenDistance
            /\ q.position[2] = Fin(0)
            /\ isFinite(q.position[3])
            /\ -6000 <= q.position[3].v
            /\ q.position[3].v <= 6000

\* the 500th particle of a run that rejected 199 candidates before each one it
\* accepted sits at z = -6 with a startTime just below totalDuration
C15_Witness ==
    /\ probe.length = numParticles
    /\ probe.attempts = maxAttempts
    /\ Len(probe.last) = 1
    /\ probe.last[1].position[3] = Fin(-6000)
    /\ probe.last[1].startTime = Fin(4999000)
    /\ probe.params.particleRate = Fin(100000)

(***************************************************************************)
(* Properties of getInterferenceIntensity (SpecI)                          *)
(***************************************************************************)
\* x <= 0 for a number x
NotPositive(x) == x = NegInf \/ (isFinite(x) /\ x.v <= 0)

\* C17: with screenDistance <= 0 or wavelength <= 0 a call always returns, and
\* what it returns is 0, for every position (NaN included) and whatever the
\* other fields hold.
C17_DegenerateGeometryGivesZero ==
    (NotPositive(probe.params.screenDistance) \/ NotPositive(probe.params.wavelength)) =>
        IF probe.done THEN probe.result = Fin(0) ELSE ENABLED EvaluateIntensity

\* a call with wavelength 0 (k is Infinity before the guard is reached), NaN
\* slitWidth and a NaN position has returned 0
C17_Witness ==
    /\ probe.done
    /\ probe.result = Fin(0)
    /\ probe.params.wavelength = Fin(0)
    /\ probe.params.screenDistance = Fin(10000)
    /\ isNaN(probe.params.slitWidth)
    /\ isNaN(probe.posOnScreen)

\* the four fields the function reads are finite
FiniteGeometry(p) ==
    /\ isFinite(p.wavelength)
    /\ isFinite(p.screenDistance)
    /\ isFinite(p.slitSeparation)
    /\ isFinite(p.slitWidth)

\* C18: with screenDistance > 0 and wavelength > 0 (and slitSeparation and
\* slitWidth finite, as they are in all valid params) a call at position 0
\* always returns, and what it returns is exactly 1.0.
C18_CentreIntensityIsOne ==
    (/\ probe.posOnScreen = Fin(0)
     /\ FiniteGeometry(probe.params)
     /\ probe.params.screenDistance.v > 0
     /\ probe.params.wavelength.v > 0) =>
        IF probe.done THEN probe.result = Fin(One) ELSE ENABLED EvaluateIntensity

\* a call at position 0 has returned 1.0 for a slit wider than the separation
C18_Witness ==
    /\ probe.done
    /\ probe.posOnScreen = Fin(0)
    /\ probe.result = Fin(One)
    /\ probe.params.slitWidth = Fin(5000)
    /\ probe.params.slitSeparation = Fin(500)
    /\ probe.params.wavelength = Fin(100)

\* the four fields the function reads are within the validator's ranges
ValidatedGeometry(p) ==
    \A key \in {"wavelength", "screenDistance", "slitSeparation", "slitWidth"} :
        InBounds(key, p[key])

\* C19: for validated params and a finite position, what a call returns is a
\* number of [0, 1].
C19_IntensityWithinUnitInterval ==
    (/\ probe.done
     /\ isFinite(probe.posOnScreen)
     /\ ValidatedGeometry(probe.params)) =>
        /\ isFinite(probe.result)
        /\ 0 <= probe.result.v
        /\ probe.result.v <= One

\* a call off the centre has returned a value strictly between 0 and 1
C19_Witness ==
    /\ probe.done
    /\ probe.posOnScreen = Fin(-2500)
    /\ ValidatedGeometry(probe.params)
    /\ isFinite(probe.result)
    /\ 0 < probe.result.v
    /\ probe.result.v < One

(***************************************************************************)
(* Properties of the particle system (SpecP)                               *)
(***************************************************************************)
\* simulation times at which the filter is compared
SampleTimes == {Fin(-1000), Fin(0), Fin(1000), Fin(2000), Fin(5000000)}

\* every particle of the sequence a is in the sequence b
AllIn(a, b) == \A i \in 1..Len(a) : \E j \in 1..Len(b) : b[j] = a[i]

PhysicsKeys == {"wavelength", "slitSeparation", "slitWidth", "screenDistance",
                "particleRate"}

\* particleMode has just been switched on, or is on while a physics field changes
RegenerationTrigger ==
    /\ params'.particleMode
    /\ \/ ~params.particleMode
       \/ \E key \in PhysicsKeys : params'[key] # params[key]

\* C13: a step that switches particleMode on, or changes wavelength,
\* slitSeparation, slitWidth, screenDistance or particleRate while it is on,
\* installs a newly generated array in which every particle was generated for
\* the new params, and leaves the visible subset empty.
C13_TriggerReplacesPopulation ==
    [][RegenerationTrigger =>
          /\ populationId' \notin {0, populationId}
          /\ visibleParticles' = <<>>
          /\ Len(allParticles') <= MaxPopulation
          /\ LET generated == PopulationCandidates(params')
             IN  \A i \in 1..Len(allParticles') :
                    /\ allParticles'[i].position[1] = params'.screenDistance
                    /\ allParticles'[i] \in generated]_vars

\* a second batch, generated for screenDistance 5.0 after frames were
\* delivered, is waiting for its first run of the visibility effect
C13_Witness ==
    /\ lastOp = "setParams"
    /\ params.particleMode
    /\ params.screenDistance = Fin(5000)
    /\ populationId = 2
    /\ Len(allParticles) = 2
    /\ visibleParticles = <<>>
    /\ visibilityDue
    /\ Gt(simulationTime, Fin(0))

\* C14: in every state with particleMode off, the population and the visible
\* subset are both empty: switching it off clears them in that step, and no
\* tick, update or reset that follows brings a particle back.
C14_DisabledMeansEmpty ==
    ~params.particleMode => (allParticles = <<>> /\ visibleParticles = <<>>)

\* particleMode has just been switched off after the clock had advanced
C14_Witness ==
    /\ lastOp = "disable"
    /\ ~params.particleMode
    /\ Gt(simulationTime, Fin(0))
    /\ populationId = 0
    /\ allParticles = <<>>
    /\ visibleParticles = <<>>

\* C16: the step that switches particleMode from off to on (a population is
\* generated in it) leaves the accumulated and the exposed simulation time at
\* 0, and so does reset.
C16_EnteringParticleModeZeroesClock ==
    [][(lastOp' \in {"enable", "reset"}) =>
          /\ simTime' = Fin(0)
          /\ simulationTime' = Fin(0)]_vars

(***************************************************************************)
(* Properties of FringeMarkers (SpecF)                                     *)
(***************************************************************************)
\* C20: with slitSeparation > 0 a render gives exactly 21 markers, one for
\* each i of -10..10 in that order, at x = screenDistance + 0.1, y = 0 and
\* z = i x (wavelength x screenDistance / slitSeparation); with
\* slitSeparation <= 0 it gives none.
C20_TwentyOneMarkers ==
    probe.done =>
        LET p == probe.params
            d == p.slitSeparation
        IN  /\ NotPositive(d) => probe.markers = <<>>
            /\ Gt(d, Fin(0)) =>
                 /\ Len(probe.markers) = 21
                 /\ \A i \in -10..10 :
                        LET m == probe.markers[i + 11]
                        IN  /\ m[1] = Fin(p.screenDistance.v + 100)
                            /\ m[2] = Fin(0)
                            /\ isFinite(m[3])
                            /\ IF isFinite(d)
                               THEN m[3].v * d.v = i * p.wavelength.v * p.screenDistance.v
                               ELSE m[3].v = 0

\* the defaults (0.5, 10, 2) have been rendered: 21 markers 2.5 apart, the
\* outermost at z = -25 and z = 25
C20_Witness ==
    /\ probe.done
    /\ probe.params.wavelength = Fin(500)
    /\ probe.params.screenDistance = Fin(10000)
    /\ probe.params.slitSeparation = Fin(2000)
    /\ Len(probe.markers) = 21
    /\ probe.markers[1] = <<Fin(10100), Fin(0), Fin(-25000)>>
    /\ probe.markers[12] = <<Fin(10100), Fin(0), Fin(2500)>>
    /\ probe.markers[21] = <<Fin(10100), Fin(0), Fin(25000)>>

(***************************************************************************)
(* Properties of formatParamValue (SpecT)                                  *)
(***************************************************************************)
\* the number of characters after the decimal point of a string
Decimals(text) ==
    IF \E i \in 1..Len(text) : text[i] = "."
    THEN Len(text) - (CHOOSE i \in 1..Len(text) : text[i] = ".")
    ELSE 0

\* the number of decimals the doc comment gives for a range
DocumentedDecimals(key) ==
    CASE key \in {"wavelength", "slitWidth"} -> 2
      [] range(key) < 1000 -> 2
      [] range(key) <= 10000 -> 1
      [] OTHER -> 0

\* C21: a finite value is formatted with 2 decimals when the range of its
\* field is below 1, 1 decimal when it is between 1 and 10 and 0 decimals
\* above 10; wavelength and slitWidth are formatted with 2 decimals
\* (0.532 -> "0.53", 0.333 -> "0.33"), screenDistance and particleRate with 0.
C21_FormatDecimalsAsDocumented ==
    (probe.done /\ isFinite(probe.value)) =>
        /\ Decimals(probe.result) = DocumentedDecimals(probe.key)
        /\ (probe.key = "wavelength" /\ probe.value = Fin(532)) =>
               probe.result = <<"0", ".", "5", "3">>
        /\ (probe.key = "slitWidth" /\ probe.value = Fin(333)) =>
               probe.result = <<"0", ".", "3", "3">>
        /\ probe.key \in {"screenDistance", "particleRate"} => Decimals(probe.result) = 0

(***************************************************************************)
(* Properties of the frame subscription (SpecU) and of the consumers of    *)
(* the simulation time (SpecP)                                             *)
(***************************************************************************)
\* C22: while the component is mounted exactly one frame callback is pending,
\* the one of the animation effect in force, closed over the current isPaused
\* and timeScale; once it is torn down none is pending and no step changes
\* the accumulated or the exposed simulation time; the step that pauses keeps
\* one callback pending and both times as they were.
C22_SubscriptionReleased ==
    /\ [](/\ Cardinality(pendingFrames) <= 1
          /\ ~tornDown => pendingFrames = {[id |-> animationFrameId,
                                            config |-> AnimationConfig(params)]}
          /\ tornDown => pendingFrames = {})
    /\ [][/\ tornDown => (simTime' = simTime /\ simulationTime' = simulationTime)
          /\ lastOp' = "pause" =>
                /\ Cardinality(pendingFrames') = 1
                /\ simTime' = simTime
                /\ simulationTime' = simulationTime]_vars

\* the component was torn down while paused, with time accumulated
C22_Witness ==
    /\ tornDown
    /\ lastOp = "unmount"
    /\ params.isPaused
    /\ pendingFrames = {}
    /\ Gt(simTime, Fin(0))

\* C23: a tick that advances the clock exposes the advanced time before any
\* consumer runs (exposed = accumulated), WaveField's uniform is set to it in
\* the tick's render, and the visibility effect that follows the tick filters
\* the population by that same value.
C23_ConsumersReadSameTime ==
    /\ [](simulationTime = simTime)
    /\ [][/\ (lastOp' = "tick" /\ params.showWaves) => uTime' = simTime'
          /\ (lastOp = "tick" /\ lastOp' = "reveal") =>
                /\ params.showWaves => uTime = simulationTime
                /\ visibleParticles' =
                       Revealed(allParticles, visibleParticles, simulationTime)]_vars

\* the visibility effect of a tick has revealed a particle whose startTime is
\* past 0, and the uniform holds the time it was filtered by
C23_Witness ==
    /\ lastOp = "reveal"
    /\ params.showWaves
    /\ Gt(simulationTime, Fin(0))
    /\ uTime = simulationTime
    /\ \E i \in 1..Len(visibleParticles) : Gt(visibleParticles[i].startTime, Fin(0))

(***************************************************************************)
(* Properties of the acceptance test of generateParticles (SpecG)          *)
(***************************************************************************)
\* the fraction u is strictly below the intensity x
StrictlyBelow(u, x) == x = PosInf \/ (isFinite(x) /\ u.n * One < x.v * u.d)

\* C24: a pass pushes a particle only for a candidate position at which some
\* threshold of [0, 1) is strictly below an intensity the function may return
\* there; with screenDistance <= 0 or wavelength <= 0 a run never pushes one,
\* is never stuck, and returns after exactly maxAttempts = 100000 attempts
\* with an empty population.
C24_DegenerateRunIsEmpty ==
    /\ []((NotPositive(probe.params.screenDistance) \/ NotPositive(probe.params.wavelength)) =>
            /\ probe.length = 0
            /\ probe.last = <<>>
            /\ IF probe.done
               THEN probe.attempts = maxAttempts /\ maxAttempts = 100000
               ELSE ENABLED NextG)
    /\ [][probe'.length > probe.length =>
             \E r \in PositionDraws :
                 /\ probe'.last[1].position[3] = CandidateZ(r)
                 /\ \E u \in ThresholdDraws :
                        \E x \in getInterferenceIntensity(CandidateZ(r), probe.params) :
                            StrictlyBelow(u, x)]_vars

\* a run on screenDistance 0 has returned no particle after 100000 attempts
C24_Witness ==
    /\ probe.done
    /\ probe.params.screenDistance = Fin(0)
    /\ probe.params.wavelength = Fin(500)
    /\ probe.length = 0
    /\ probe.attempts = 100000

(***************************************************************************)
(* Properties of reset and regeneration (SpecP)                            *)
(***************************************************************************)
\* C25: whatever the state handleReset is invoked in, it leaves the
\* accumulated and the exposed simulation time at 0 and the visible subset
\* empty; with particleMode on the population is a newly generated array for
\* the current params, with particleMode off it is the empty array.
C25_ResetRestartsEverything ==
    [][lastOp' = "reset" =>
          /\ simTime' = Fin(0)
          /\ simulationTime' = Fin(0)
          /\ visibleParticles' = <<>>
          /\ params' = params
          /\ IF params.particleMode
             THEN /\ populationId' \notin {0, populationId}
                  /\ Len(allParticles') <= MaxPopulation
                  /\ LET generated == PopulationCandidates(params)
                     IN  \A i \in 1..Len(allParticles') : allParticles'[i] \in generated
             ELSE /\ populationId' = 0
                  /\ allParticles' = <<>>]_vars

\* reset has replaced a population whose particles were all visible, after
\* the clock had advanced
C25_Witness ==
    /\ lastOp = "reset"
    /\ params.particleMode
    /\ now >= 2
    /\ populationId = 2
    /\ Len(allParticles) = 2
    /\ visibleParticles = <<>>
    /\ simTime = Fin(0)
    /\ simulationTime = Fin(0)
    /\ visibilityDue

\* only isPaused, timeScale, amplitude, waveSpeed or showWaves change
OnlyDisplayFieldsChange ==
    /\ params' # params
    /\ \A key \in PhysicsKeys \cup {"particleMode"} : params'[key] = params[key]

\* C26: while particleMode is on, a step that changes none of params but
\* isPaused, timeScale, amplitude, waveSpeed or showWaves keeps the population
\* (the same array) and the visible subset.
C26_DisplayChangeKeepsPopulation ==
    [][(params.particleMode /\ OnlyDisplayFieldsChange) =>
          /\ populationId' = populationId
          /\ allParticles' = allParticles
          /\ visibleParticles' = visibleParticles]_vars

\* C27: in every state each particle of the visible subset is a particle of
\* the current population; in particular the visibility effect that runs in
\* the same commit as the generation effect (particleMode has just changed)
\* closes over the collections of the render before, which are empty, and
\* brings nothing back after setVisibleParticles([]).
C27_VisibleWithinPopulation ==
    /\ [](AllIn(visibleParticles, allParticles) /\ Len(visibleParticles) <= Len(allParticles))
    /\ [][populationId' # populationId => visibleParticles' = <<>>]_vars

\* particle mode was entered with the clock past 0: the generation effect and
\* the visibility effect ran in the same commit
C27_Witness ==
    /\ lastOp = "enable"
    /\ Gt(simulationTime, Fin(0))
    /\ Len(allParticles) = 2
    /\ visibleParticles = <<>>
    /\ visibilityDue

(***************************************************************************)
(* Properties of the reveal of a population (SpecR)                        *)
(***************************************************************************)
\* every particle of the population is visible
AllVisible == visibleParticles = allParticles

\* C28: with particleMode on, the clock RUNNING at timeScale > 0 and no change
\* of params and no reset: a frame with an advancing timestamp advances the
\* simulation time once the marker is set, a pending visibility effect can
\* always run, once the simulation time is at or past 500 / particleRate and
\* the visibility effect has run every particle of the population is visible,
\* and a population that is all visible stays so.
C28_AllParticlesRevealed ==
    /\ [](/\ params.particleMode /\ Running /\ Gt(params.timeScale, Fin(0))
          /\ visibilityDue => ENABLED VisibilityEffect
          /\ ~visibilityDue => ENABLED (Tick \/ LateTick) \/ now > MaxNow
          /\ (~visibilityDue /\ Ge(simulationTime, totalDuration(params))) => AllVisible)
    /\ [][/\ (lastOp' = "tick" /\ now' > now /\ lastTimestamp # 0) =>
                Gt(simulationTime', simulationTime)
          /\ (AllVisible /\ ~visibilityDue) => AllVisible']_vars

\* the simulation time has passed 500 / particleRate = 5 s and the last
\* particle, due just before it, is visible with the rest
C28_Witness ==
    /\ lastOp = "reveal"
    /\ params.particleRate = Fin(100000)
    /\ Ge(simulationTime, totalDuration(params))
    /\ Len(allParticles) = 2
    /\ AllVisible
    /\ allParticles[1].startTime = Fin(0)
    /\ allParticles[2].startTime = Fin(4999000)

C30_PanelStaysValid ==
    /\ \A key \in DOMAIN SliderRanges :
           /\ PARAM_BOUNDS[key].min <= SliderRanges[key].min
           /\ SliderRanges[key].min <= SliderRanges[key].max
           /\ SliderRanges[key].max <= PARAM_BOUNDS[key].max
    /\ SliderRanges.slitWidth.max = 500
    /\ SliderRanges.slitSeparation.min = 1000
    /\ SliderRanges.slitWidth.max < SliderRanges.slitSeparation.min
    /\ probe.params = probe.supplied
    /\ validatePhysicsConstraints(probe.params) = probe.params
    /\ validateSlitConstraints(probe.params.slitWidth, probe.params.slitSeparation) = "null"
    /\ Gt(probe.params.slitSeparation, probe.params.slitWidth)

\* the widest slit beside the narrowest separation, with every other slider
\* at an end of its range and both checkboxes changed
C30_Witness ==
    /\ probe.params.slitWidth = Fin(500)
    /\ probe.params.slitSeparation = Fin(1000)
    /\ probe.params.screenDistance = Fin(20000)
    /\ probe.params.particleRate = Fin(200000)
    /\ probe.params.amplitude = Fin(100)
    /\ probe.params.timeScale = Fin(3000)
    /\ probe.params.particleMode
    /\ ~probe.params.showWaves

====
